---- MODULE Spec2Model ----
(***************************************************************************)
(* AutoNAT v2 client behaviour (protocols/autonat/src/v2/client/           *)
(* behaviour.rs): the address-candidate scheduler and the dial-probe state *)
(* machine, driven by swarm events, connection-handler events and poll.    *)
(*                                                                         *)
(* Abstractions, all stated here:                                          *)
(*  - Multiaddrs, PeerIds, ConnectionIds and nonces are small integers.    *)
(*  - A ConnectionId is a slot that the swarm may use again once the       *)
(*    connection is closed; the swarm never has two live connections with  *)
(*    one id, and reports each connection with the peer it belongs to.     *)
(*  - ConnectionInfo.is_local is written once and never read: left out.    *)
(*  - Event.tested_addr and Event.bytes_sent are copied through unchanged  *)
(*    from the handler's report: left out.  Event.result keeps Ok / Err;   *)
(*    the wrapped error is opaque to the receiver of the event.            *)
(*  - RngCore is a nondeterministic choice; HashMap iteration order and    *)
(*    the order sort_unstable leaves among equal keys are nondeterministic *)
(*    choices too.                                                         *)
(*  - A failed expect() is the state panicked = TRUE, which no operation   *)
(*    leaves.                                                              *)
(*  - The payload of a handler event (nonce, reachable_addr, error kind,   *)
(*    server, server_no_support) is arbitrary: the handlers are not part   *)
(*    of this module.                                                      *)
(*  - world and mode are fixed by the initial state: world says how many   *)
(*    addresses, peers, connection ids and nonces exist, mode which        *)
(*    history the observer variables keep.                                 *)
(***************************************************************************)
EXTENDS Integers, Sequences, FiniteSets, TLC

\* ---------------------------------------------------------------- bounds
\* How many distinct addresses, peers, connection ids and nonces a run may
\* see: each specification below takes Few or Several of each.
Few == 1
Several == 2
\* NewExternalAddrCandidate stops at this score.
MaxScore == 2
\* TestCompleted is delivered while its directives still fit this queue length.
MaxQueue == 2
\* Config.max_candidates the Behaviour is built with.
MaxCandidates == 1
\* The longest Multiaddr, in protocols, and the most addresses a
\* ListenerPresence is collected from.
MaxAddrLen == 2
MaxListeners == 2

\* Option::None of an address, a peer.
NoAddr == 0
NoPeer == 0

\* ----------------------------------------------------------------- state
VARIABLES
    pending_nonces,      \* HashMap<u64, NonceStatus>
    pending_events,      \* VecDeque<ToSwarm<..>>
    address_candidates,  \* HashMap<Multiaddr, AddressInfo>
    already_tested,      \* HashSet<Multiaddr>
    next_tick,           \* Delay: "armed" or "elapsed"
    peer_info,           \* HashMap<ConnectionId, ConnectionInfo>
    connections,         \* the swarm's live connections: id -> peer, or NoPeer
    panicked,            \* an expect("inconsistent state") has failed
    world,               \* how many addresses, peers, connection ids, nonces exist
    mode,                \* which observer the history variables follow
    last,                \* observer: the operation just processed
    marked,              \* observer: a set of addresses, peers or nonces
    sent,                \* observer: nonce -> addresses dispatched with it
    listener_presence,   \* ListenerPresence: [inner |-> HashSet<ProtocolStack>]
    listener_input,      \* the addresses to collect, the address to ask for, the step
    contains_result      \* what ListenerPresence::contains returned, or "none"

vars == <<pending_nonces, pending_events, address_candidates, already_tested,
          next_tick, peer_info, connections, panicked,
          world, mode, last, marked, sent,
          listener_presence, listener_input, contains_result>>

\* The values the swarm, the handlers and the rng draw from.
Addrs == 1..world.addrs
Peers == 1..world.peers
ConnIds == 1..world.conns
Nonces == 1..world.nonces

\* Config.max_candidates, scaled down from the default of 10.
config_max_candidates == MaxCandidates

\* ------------------------------------------------------------ data types
\* enum NonceStatus
NonceStatus == {"Pending", "Received"}

\* AddressInfo::default()
AddressInfoDefault == [score |-> 0, is_tested |-> FALSE]

\* dial_request::InternalError as the dial-request handler may report it:
\* the kinds the match of on_connection_handler_event names, and "Other" for
\* every kind it leaves to its `_` arm.
ErrorKinds == {"FailureDuringDialBack", "UnableToConnectOnSelectedAddress",
               "InternalServer", "DataRequestTooLarge", "DataRequestTooSmall",
               "InvalidResponse", "ServerRejectedDialRequest",
               "InvalidReferencedAddress", "ServerChoseNotToDialAnyAddress",
               "Other"}

\* Result<TestEnd, Error> as the dial-request handler may report it; addr is
\* the `addr: Option<Multiaddr>` of the two kinds that carry one.
OkResults == {[ok |-> TRUE, nonce |-> n, reachable_addr |-> a] : n \in Nonces, a \in Addrs}
ErrResults ==
    {[ok |-> FALSE, kind |-> k, addr |-> NoAddr] : k \in ErrorKinds}
    \cup {[ok |-> FALSE, kind |-> k, addr |-> a] :
            k \in {"FailureDuringDialBack", "UnableToConnectOnSelectedAddress"}, a \in Addrs}
TestResults == OkResults \cup ErrResults

\* The first Err arm: the kinds whose `addr: Some(addr)` is marked tested.
AddrErrorsDialBackOnly == {"FailureDuringDialBack"}
AddrErrors == {"FailureDuringDialBack", "UnableToConnectOnSelectedAddress"}

\* The second Err arm: the kinds that end in handle_no_connection.
ServerErrorsShort == {"InternalServer", "DataRequestTooLarge", "DataRequestTooSmall",
                      "ServerRejectedDialRequest",
                      "InvalidReferencedAddress", "ServerChoseNotToDialAnyAddress"}
ServerErrors == {"InternalServer", "DataRequestTooLarge", "DataRequestTooSmall",
                 "InvalidResponse", "ServerRejectedDialRequest",
                 "InvalidReferencedAddress", "ServerChoseNotToDialAnyAddress"}

\* ToSwarm directives.
NotifyHandler(peer, conn, nonce, addrs) ==
    [type |-> "NotifyHandler", peer_id |-> peer, handler |-> conn,
     nonce |-> nonce, addrs |-> addrs]
ExternalAddrConfirmedDirective(addr) ==
    [type |-> "ExternalAddrConfirmed", addr |-> addr]
GenerateEvent(server, ok) ==
    [type |-> "GenerateEvent", server |-> server,
     result |-> IF ok THEN "Ok" ELSE "Err"]

\* Poll<ToSwarm<..>>
Ready(ev) == [type |-> "Ready", event |-> ev]
Pending == [type |-> "Pending"]

\* -------------------------------------------------------------- helpers
Range(s) == {s[i] : i \in 1..Len(s)}

RECURSIVE Reverse(_)
Reverse(s) == IF s = <<>> THEN <<>> ELSE Append(Reverse(Tail(s)), Head(s))

Take(s, n) == SubSeq(s, 1, IF Len(s) < n THEN Len(s) ELSE n)

Min(a, b) == IF a < b THEN a ELSE b

\* HashMap::insert
MapInsert(m, k, v) == [x \in DOMAIN m \cup {k} |-> IF x = k THEN v ELSE m[x]]

\* How many directives of type t the queue q holds.
CountType(q, t) == Cardinality({i \in 1..Len(q) : q[i].type = t})

\* The injective sequences over a set: every order a HashMap may be iterated in.
Orders(S) == {s \in [1..Cardinality(S) -> S] : \A i, j \in 1..Cardinality(S) : s[i] = s[j] => i = j}

\* ----------------------------------------------------- listener presence
\* swarm/src/listener_presence.rs.  A Multiaddr is the sequence of the tags
\* of its protocols (Multiaddr::protocol_stack); the values the protocols
\* carry play no part.
ProtocolTags == {"dns", "dns4", "dns6", "dnsaddr", "ip4", "ip6", "p2p", "tcp", "tls"}

\* The Multiaddrs of at most MaxAddrLen protocols.
Multiaddrs == UNION {[1..n -> ProtocolTags] : n \in 0..MaxAddrLen}

\* is_not_protocol that takes p2p for a protocol.
is_not_protocol_but_p2p(tag) ==
    tag \notin {"dns", "dns4", "dns6", "dnsaddr", "ip4", "ip6"}

\* is_not_protocol
is_not_protocol(tag) ==
    tag \notin {"dns", "dns4", "dns6", "dnsaddr", "ip4", "ip6", "p2p"}

\* clean_multiaddr: address.protocol_stack().filter(|e| is_not_protocol(e)).collect()
RECURSIVE clean_multiaddr(_)
clean_multiaddr(address) ==
    IF address = <<>> THEN <<>>
    ELSE IF is_not_protocol(Head(address))
         THEN <<Head(address)>> \o clean_multiaddr(Tail(address))
         ELSE clean_multiaddr(Tail(address))

\* ListenerPresence::default()
ListenerPresenceDefault == [inner |-> {}]

\* <ListenerPresence as FromIterator<&Multiaddr>>::from_iter
from_iter(iter) == [inner |-> {clean_multiaddr(a) : a \in iter}]

\* ListenerPresence::contains
contains(self, address) == clean_multiaddr(address) \in self.inner

\* ----------------------------------------------------------- observers
\* The history variables record what the operations did; the operations
\* write them and never read them.  mode is fixed by the initial state and
\* selects what is recorded, so that each property is verified with the only
\* history it needs:
\*   "dispatch"   last: the polls that ran the scheduler tick, with their result
\*   "teardown"   last: ConnectionClosed and DialFailure(Some(peer)), and
\*                PeerHasServerSupport with its connection
\*   "completed"  last: TestCompleted, with its result
\*   "event"      last: TestCompleted, with its server and whether it was Ok
\*   "sent"       last: TestCompleted; sent: the addresses dispatched with each
\*                nonce; marked: the nonces a dial-back has carried
\*   "validate"   last: the polls that dispatched; marked: <<a, c>> for each
\*                validate_addr(a), c telling whether a was a candidate
\*   "blacklist"  last: the polls that dispatched; marked: <<a, c>> for each
\*                TestCompleted(Err) naming address a that ran to its end
\*   "evict"      last: TestCompleted and the polls that dispatched; marked:
\*                the peers evicted and not heard of since
\*   "book"       last: NewExternalAddrCandidate and FromSwarm::
\*                ExternalAddrConfirmed, with the address; marked: the
\*                addresses the swarm confirmed while they were candidates
\*   "ledger"     last: the dial-backs with their nonce, TestCompleted with
\*                its result and the polls that dispatched; marked:
\*                <<"dispatched", n>> for the nonce of each NotifyHandler and
\*                <<"confirmed", n>> for each nonce a TestCompleted enqueued
\*                an ExternalAddrConfirmed for
\*   "inflight"   last: ConnectionClosed and TestCompleted with its connection
\*                and result; marked: <<"inflight", n, c>> for the probe with
\*                nonce n dispatched to connection c, until a TestCompleted
\*                of c answers it, and <<"closed", n, c>> once c was closed
\*                before that; a later dispatch that draws n again takes
\*                both away
\*   "order"      last: every poll, with its result, and TestCompleted with
\*                its result; marked: the nonces of the NotifyHandlers that
\*                poll has returned
NoEvent == [op |-> "none"]

is_dispatch(e) ==
    /\ e.op = "poll"
    /\ e.result.type = "Ready"
    /\ e.result.event.type = "NotifyHandler"

\* e is the operation with its inputs, before it acts; does_panic tells
\* whether it ends in the failed expect().
project(e, does_panic) ==
    CASE mode = "dispatch" /\ e.op = "poll" /\ e.ticked -> e
      [] mode = "teardown" /\ e.op \in {"ConnectionClosed", "DialFailure"}
                           /\ e.peer_id # NoPeer -> e
      [] mode = "teardown" /\ e.op = "PeerHasServerSupport" ->
            [op |-> e.op, connection_id |-> e.connection_id]
      [] mode = "completed" /\ e.op = "TestCompleted" ->
            [op |-> e.op, result |-> e.result]
      [] mode = "event" /\ e.op = "TestCompleted" ->
            [op |-> e.op, peer_id |-> e.peer_id, server |-> e.server, ok |-> e.result.ok]
      [] mode = "sent" /\ e.op = "TestCompleted" -> [op |-> e.op]
      [] mode \in {"validate", "blacklist", "evict"} /\ is_dispatch(e) -> e
      [] mode = "evict" /\ e.op = "TestCompleted" ->
            [op |-> e.op, peer_id |-> e.peer_id, connection_id |-> e.connection_id,
             result |-> e.result, server_no_support |-> e.server_no_support]
      [] mode = "order" /\ e.op = "poll" -> e
      [] mode = "ledger" /\ e.op = "DialBack" -> [op |-> e.op, nonce |-> e.nonce]
      [] mode = "ledger" /\ e.op = "TestCompleted" -> [op |-> e.op, result |-> e.result]
      [] mode = "ledger" /\ is_dispatch(e) -> e
      [] mode = "book" /\ e.op \in {"NewExternalAddrCandidate", "ExternalAddrConfirmed"} -> e
      [] mode = "order" /\ e.op = "TestCompleted" -> [op |-> e.op, result |-> e.result]
      [] mode = "inflight" /\ e.op = "ConnectionClosed" -> e
      [] mode = "inflight" /\ e.op = "TestCompleted" ->
            [op |-> e.op, connection_id |-> e.connection_id, result |-> e.result]
      [] OTHER -> NoEvent

mark(e, does_panic) ==
    CASE mode = "sent" /\ e.op = "DialBack" -> marked \cup {e.nonce}
      [] mode = "validate" /\ e.op = "validate_addr" ->
            marked \cup {<<e.addr, e.addr \in DOMAIN address_candidates>>}
      [] mode = "blacklist" /\ e.op = "TestCompleted" /\ ~does_panic /\ ~e.result.ok ->
            IF e.result.kind \in {"FailureDuringDialBack", "UnableToConnectOnSelectedAddress"}
               /\ e.result.addr # NoAddr
            THEN marked \cup {<<e.result.addr, e.result.addr \in DOMAIN address_candidates>>}
            ELSE marked
      [] mode = "evict" /\ e.op = "TestCompleted" /\ ~does_panic /\ ~e.result.ok ->
            IF e.result.kind \in {"InternalServer", "DataRequestTooLarge",
                                  "DataRequestTooSmall", "InvalidResponse",
                                  "ServerRejectedDialRequest", "InvalidReferencedAddress",
                                  "ServerChoseNotToDialAnyAddress"}
            THEN marked \cup {e.peer_id}
            ELSE marked
      [] mode = "evict" /\ e.op = "PeerHasServerSupport" -> marked \ {e.peer_id}
      [] mode = "order" /\ is_dispatch(e) -> marked \cup {e.result.event.nonce}
      [] mode = "ledger" /\ is_dispatch(e) ->
            marked \cup {<<"dispatched", e.result.event.nonce>>}
      [] mode = "ledger" /\ e.op = "TestCompleted" ->
            IF CountType(pending_events', "ExternalAddrConfirmed")
                   > CountType(pending_events, "ExternalAddrConfirmed")
            THEN marked \cup {<<"confirmed", e.result.nonce>>}
            ELSE marked
      [] mode = "book" /\ e.op = "ExternalAddrConfirmed" ->
            IF e.addr \in DOMAIN address_candidates THEN marked \cup {e.addr} ELSE marked
      [] mode = "inflight" /\ is_dispatch(e) ->
            {m \in marked : m[2] # e.result.event.nonce}
            \cup {<<"inflight", e.result.event.nonce, e.result.event.handler>>}
      [] mode = "inflight" /\ e.op = "ConnectionClosed" ->
            {IF m[1] = "inflight" /\ m[3] = e.connection_id
             THEN <<"closed", m[2], m[3]>> ELSE m : m \in marked}
      [] mode = "inflight" /\ e.op = "TestCompleted" ->
            {m \in marked :
                ~(/\ m[1] = "inflight"
                  /\ m[3] = e.connection_id
                  /\ (e.result.ok => m[2] = e.result.nonce))}
      [] OTHER -> marked

record_sent(e) ==
    IF mode = "sent" /\ is_dispatch(e)
    THEN [sent EXCEPT ![e.result.event.nonce] = @ \cup Range(e.result.event.addrs)]
    ELSE sent

Observe(e, does_panic) ==
    /\ mode' = mode
    /\ world' = world
    /\ last' = project(e, does_panic)
    /\ marked' = mark(e, does_panic)
    /\ sent' = record_sent(e)
    /\ UNCHANGED <<listener_presence, listener_input, contains_result>>

\* ------------------------------------------------- connection teardown
\* handle_no_connection without its retain of the other connections.
handle_no_connection_keep(info, peer_id, connection_id) ==
    [c \in DOMAIN info |->
        IF info[c].supports_autonat /\ info[c].peer_id = peer_id
        THEN [info[c] EXCEPT !.supports_autonat = FALSE]
        ELSE info[c]]

\* handle_no_connection that removes the record and leaves the others alone.
handle_no_connection_remove_only(info, peer_id, connection_id) ==
    LET removeable_conn_ids ==
            {c \in DOMAIN info : info[c].peer_id = peer_id /\ c = connection_id}
    IN  [c \in DOMAIN info \ removeable_conn_ids |-> info[c]]

\* Behaviour::handle_no_connection: the peer_info it leaves.
handle_no_connection(info, peer_id, connection_id) ==
    LET removeable_conn_ids ==
            {c \in DOMAIN info : info[c].peer_id = peer_id /\ c = connection_id}
        kept == [c \in DOMAIN info \ removeable_conn_ids |-> info[c]]
    IN  [c \in DOMAIN kept |->
            IF kept[c].supports_autonat /\ kept[c].peer_id = peer_id
            THEN [kept[c] EXCEPT !.supports_autonat = FALSE]
            ELSE kept[c]]

\* --------------------------------------------------------- swarm events
\* NewExternalAddrCandidate that inserts a fresh AddressInfo with the new score.
NewExternalAddrCandidate_fresh(addr) ==
    LET info == IF addr \in DOMAIN address_candidates
                THEN address_candidates[addr] ELSE AddressInfoDefault
    IN  /\ ~panicked
        /\ info.score < MaxScore
        /\ address_candidates' =
               MapInsert(address_candidates, addr,
                         [AddressInfoDefault EXCEPT !.score = info.score + 1])
        /\ Observe([op |-> "NewExternalAddrCandidate", addr |-> addr], FALSE)
        /\ UNCHANGED <<pending_nonces, pending_events, already_tested, next_tick,
                       peer_info, connections, panicked>>

\* FromSwarm::NewExternalAddrCandidate
NewExternalAddrCandidate(addr) ==
    LET info == IF addr \in DOMAIN address_candidates
                THEN address_candidates[addr] ELSE AddressInfoDefault
    IN  /\ ~panicked
        /\ info.score < MaxScore
        /\ address_candidates' =
               MapInsert(address_candidates, addr, [info EXCEPT !.score = @ + 1])
        /\ Observe([op |-> "NewExternalAddrCandidate", addr |-> addr], FALSE)
        /\ UNCHANGED <<pending_nonces, pending_events, already_tested, next_tick,
                       peer_info, connections, panicked>>

\* AddressInfo.is_tested = true, if the address is a candidate.
mark_tested(candidates, addr) ==
    IF addr \in DOMAIN candidates
    THEN [candidates EXCEPT ![addr].is_tested = TRUE]
    ELSE candidates

\* ExternalAddrConfirmed left to the `_ => {}` arm.
ExternalAddrConfirmed_ignored(addr) ==
    /\ ~panicked
    /\ Observe([op |-> "ExternalAddrConfirmed", addr |-> addr], FALSE)
    /\ UNCHANGED <<pending_nonces, pending_events, address_candidates, already_tested,
                   next_tick, peer_info, connections, panicked>>

\* FromSwarm::ExternalAddrConfirmed
ExternalAddrConfirmed(addr) ==
    /\ ~panicked
    /\ address_candidates' = mark_tested(address_candidates, addr)
    /\ Observe([op |-> "ExternalAddrConfirmed", addr |-> addr], FALSE)
    /\ UNCHANGED <<pending_nonces, pending_events, already_tested, next_tick,
                   peer_info, connections, panicked>>

\* FromSwarm::ConnectionEstablished, for an id the swarm has no live connection with.
ConnectionEstablished(peer_id, connection_id) ==
    /\ ~panicked
    /\ connections[connection_id] = NoPeer
    /\ connections' = [connections EXCEPT ![connection_id] = peer_id]
    /\ peer_info' =
           IF connection_id \in DOMAIN peer_info
           THEN peer_info
           ELSE MapInsert(peer_info, connection_id,
                          [peer_id |-> peer_id, supports_autonat |-> FALSE])
    /\ Observe([op |-> "ConnectionEstablished", peer_id |-> peer_id,
                connection_id |-> connection_id], FALSE)
    /\ UNCHANGED <<pending_nonces, pending_events, address_candidates,
                   already_tested, next_tick, panicked>>

\* FromSwarm::ConnectionClosed, for a live connection and its peer.
ConnectionClosed(peer_id, connection_id) ==
    /\ ~panicked
    /\ connections[connection_id] = peer_id
    /\ peer_id # NoPeer
    /\ connections' = [connections EXCEPT ![connection_id] = NoPeer]
    /\ peer_info' = handle_no_connection(peer_info, peer_id, connection_id)
    /\ Observe([op |-> "ConnectionClosed", peer_id |-> peer_id,
                connection_id |-> connection_id], FALSE)
    /\ UNCHANGED <<pending_nonces, pending_events, address_candidates,
                   already_tested, next_tick, panicked>>

\* FromSwarm::DialFailure for a dial that never became a connection; peer_id
\* is NoPeer for DialFailure { peer_id: None, .. }, which the match ignores.
DialFailure(peer_id, connection_id) ==
    /\ ~panicked
    /\ connections[connection_id] = NoPeer
    /\ peer_info' = IF peer_id # NoPeer
                    THEN handle_no_connection(peer_info, peer_id, connection_id)
                    ELSE peer_info
    /\ Observe([op |-> "DialFailure", peer_id |-> peer_id,
                connection_id |-> connection_id], FALSE)
    /\ UNCHANGED <<pending_nonces, pending_events, address_candidates,
                   already_tested, next_tick, connections, panicked>>

\* ------------------------------------------------------- handler events
\* Handler events come from the handler of a live connection, with its peer.

\* The dial-back that inserts a nonce it does not find.
DialBack_insert(connection_id, nonce) ==
    /\ ~panicked
    /\ connections[connection_id] # NoPeer
    /\ pending_nonces' = MapInsert(pending_nonces, nonce, "Received")
    /\ Observe([op |-> "DialBack", connection_id |-> connection_id, nonce |-> nonce], FALSE)
    /\ UNCHANGED <<pending_events, address_candidates, already_tested, next_tick,
                   peer_info, connections, panicked>>

\* The dial-back that takes every pending nonce for received.
DialBack_all(connection_id, nonce) ==
    /\ ~panicked
    /\ connections[connection_id] # NoPeer
    /\ pending_nonces' =
           IF nonce \in DOMAIN pending_nonces
           THEN [n \in DOMAIN pending_nonces |-> "Received"]
           ELSE pending_nonces
    /\ Observe([op |-> "DialBack", connection_id |-> connection_id, nonce |-> nonce], FALSE)
    /\ UNCHANGED <<pending_events, address_candidates, already_tested, next_tick,
                   peer_info, connections, panicked>>

\* Either::Right(nonce), from a dial-back handler.
DialBack(connection_id, nonce) ==
    /\ ~panicked
    /\ connections[connection_id] # NoPeer
    /\ pending_nonces' =
           IF nonce \in DOMAIN pending_nonces
           THEN [pending_nonces EXCEPT ![nonce] = "Received"]
           ELSE pending_nonces
    /\ Observe([op |-> "DialBack", connection_id |-> connection_id, nonce |-> nonce], FALSE)
    /\ UNCHANGED <<pending_events, address_candidates, already_tested, next_tick,
                   peer_info, connections, panicked>>

\* PeerHasServerSupport that sets the flag on every record of the peer.
PeerHasServerSupport_peer(connection_id) ==
    /\ ~panicked
    /\ connections[connection_id] # NoPeer
    /\ IF connection_id \in DOMAIN peer_info
       THEN /\ peer_info' =
                   [c \in DOMAIN peer_info |->
                       IF peer_info[c].peer_id = peer_info[connection_id].peer_id
                       THEN [peer_info[c] EXCEPT !.supports_autonat = TRUE]
                       ELSE peer_info[c]]
            /\ UNCHANGED panicked
       ELSE /\ panicked' = TRUE
            /\ UNCHANGED peer_info
    /\ Observe([op |-> "PeerHasServerSupport", connection_id |-> connection_id,
                peer_id |-> connections[connection_id]], connection_id \notin DOMAIN peer_info)
    /\ UNCHANGED <<pending_nonces, pending_events, address_candidates,
                   already_tested, next_tick, connections>>

\* Either::Left(PeerHasServerSupport), from a dial-request handler.
PeerHasServerSupport(connection_id) ==
    /\ ~panicked
    /\ connections[connection_id] # NoPeer
    /\ IF connection_id \in DOMAIN peer_info
       THEN /\ peer_info' = [peer_info EXCEPT ![connection_id].supports_autonat = TRUE]
            /\ UNCHANGED panicked
       ELSE /\ panicked' = TRUE
            /\ UNCHANGED peer_info
    /\ Observe([op |-> "PeerHasServerSupport", connection_id |-> connection_id,
                peer_id |-> connections[connection_id]], connection_id \notin DOMAIN peer_info)
    /\ UNCHANGED <<pending_nonces, pending_events, address_candidates,
                   already_tested, next_tick, connections>>

\* The same test for `Some(_)`.
nonce_received_any(nonces, nonce) ==
    nonce \in DOMAIN nonces

\* The test `matches!(self.pending_nonces.get(&nonce), Some(NonceStatus::Received))`.
nonce_received(nonces, nonce) ==
    nonce \in DOMAIN nonces /\ nonces[nonce] = "Received"

\* The same directives with the GenerateEvent pushed first.
test_completed_events_event_first(nonces, peer_id, server, result) ==
    <<GenerateEvent(IF server # NoPeer THEN server ELSE peer_id, result.ok)>>
    \o (IF result.ok /\ nonce_received(nonces, result.nonce)
        THEN <<ExternalAddrConfirmedDirective(result.reachable_addr)>>
        ELSE <<>>)

\* The directives TestCompleted pushes for `result`, in order.
test_completed_events(nonces, peer_id, server, result) ==
    (IF result.ok /\ nonce_received(nonces, result.nonce)
     THEN <<ExternalAddrConfirmedDirective(result.reachable_addr)>>
     ELSE <<>>)
    \o <<GenerateEvent(IF server # NoPeer THEN server ELSE peer_id, result.ok)>>

\* The address_candidates the `Err` arms of TestCompleted leave.
test_completed_candidates(candidates, result) ==
    IF ~result.ok /\ result.kind \in AddrErrors /\ result.addr # NoAddr
    THEN mark_tested(candidates, result.addr)
    ELSE candidates

\* The peer_info TestCompleted leaves, the record of connection_id being there
\* when server_no_support is set.
test_completed_peer_info(info, peer_id, connection_id, result, server_no_support) ==
    LET cleared == IF server_no_support
                   THEN [info EXCEPT ![connection_id].supports_autonat = FALSE]
                   ELSE info
    IN  IF ~result.ok /\ result.kind \in ServerErrors
        THEN handle_no_connection(cleared, peer_id, connection_id)
        ELSE cleared

\* Either::Left(TestCompleted(InternalStatusUpdate { .. })), from a dial-request
\* handler; server is NoPeer for `server: None`.
TestCompleted(connection_id, server, result, server_no_support) ==
    LET peer_id == connections[connection_id] IN
    /\ ~panicked
    /\ peer_id # NoPeer
    /\ Len(pending_events) + 2 <= MaxQueue
    /\ IF server_no_support /\ connection_id \notin DOMAIN peer_info
       THEN /\ panicked' = TRUE
            /\ UNCHANGED <<peer_info, address_candidates, pending_events>>
       ELSE /\ UNCHANGED panicked
            /\ peer_info' = test_completed_peer_info(peer_info, peer_id, connection_id,
                                                     result, server_no_support)
            /\ address_candidates' = test_completed_candidates(address_candidates, result)
            /\ pending_events' = pending_events
                   \o test_completed_events(pending_nonces, peer_id, server, result)
    /\ Observe([op |-> "TestCompleted", connection_id |-> connection_id,
                peer_id |-> peer_id, server |-> server, result |-> result,
                server_no_support |-> server_no_support], server_no_support /\ connection_id \notin DOMAIN peer_info)
    /\ UNCHANGED <<pending_nonces, already_tested, next_tick, connections>>

\* ------------------------------------------------------------ public API
\* validate_addr that leaves is_tested as it is.
validate_addr_unmarked(addr) ==
    /\ ~panicked
    /\ Observe([op |-> "validate_addr", addr |-> addr], FALSE)
    /\ UNCHANGED <<pending_nonces, pending_events, address_candidates, already_tested,
                   next_tick, peer_info, connections, panicked>>

\* Behaviour::validate_addr
validate_addr(addr) ==
    /\ ~panicked
    /\ address_candidates' = mark_tested(address_candidates, addr)
    /\ Observe([op |-> "validate_addr", addr |-> addr], FALSE)
    /\ UNCHANGED <<pending_nonces, pending_events, already_tested, next_tick,
                   peer_info, connections, panicked>>

\* ----------------------------------------------------------------- timer
\* The Delay of next_tick runs out.
TimerElapsed ==
    /\ ~panicked
    /\ next_tick = "armed"
    /\ next_tick' = "elapsed"
    /\ Observe([op |-> "TimerElapsed"], FALSE)
    /\ UNCHANGED <<pending_nonces, pending_events, address_candidates,
                   already_tested, peer_info, connections, panicked>>

\* ------------------------------------------------------- probe scheduler
\* The filters without `.filter(|(_, info)| !info.is_tested)`.
is_eligible_any_tested(addr) ==
    /\ addr \in DOMAIN address_candidates
    /\ addr \notin already_tested

\* The filters of inject_address_candiate_test: not tested, not in already_tested.
is_eligible(addr) ==
    /\ addr \in DOMAIN address_candidates
    /\ ~address_candidates[addr].is_tested
    /\ addr \notin already_tested

eligible_addrs == {a \in Addrs : is_eligible(a)}

\* What sort_unstable_by_key(|(_, count)| *count) may leave: the entries in
\* ascending order of score (AddressInfo is ordered by score alone), equal
\* scores in any order.
sorted_entries ==
    {s \in Orders(eligible_addrs) :
        \A i, j \in 1..Len(s) :
            i < j => address_candidates[s[i]].score <= address_candidates[s[j]].score}

\* The same without `.rev()`.
select_addrs_unreversed(entries) == Take(entries, config_max_candidates)

\* entries.iter().rev().map(..).take(max_candidates).cloned().collect()
select_addrs(entries) == Take(Reverse(entries), config_max_candidates)

\* The connections `choose` draws the server from.
server_conns == {c \in DOMAIN peer_info : peer_info[c].supports_autonat}

\* `find` looking at the peer alone.
conns_of_server_any(peer) ==
    {c \in DOMAIN peer_info : peer_info[c].peer_id = peer}

\* The connections `find` of submit_req_for_peer may return for peer.
conns_of_server(peer) ==
    {c \in DOMAIN peer_info : peer_info[c].supports_autonat /\ peer_info[c].peer_id = peer}

\* Behaviour::submit_req_for_peer: what it leaves of pending_nonces and
\* pending_events, for every nonce the rng may give and every connection
\* `find` may meet first.
submit_req_for_peer(peer, addrs) ==
    {[pending_nonces |-> MapInsert(pending_nonces, nonce, "Pending"),
      pending_events |-> IF conn = 0 THEN pending_events
                         ELSE Append(pending_events, NotifyHandler(peer, conn, nonce, addrs))] :
        nonce \in Nonces,
        conn \in IF conns_of_server(peer) = {} THEN {0} ELSE conns_of_server(peer)}

\* Behaviour::inject_address_candiate_test: every state it may leave
\* (pending_nonces, pending_events, next_tick).
inject_address_candiate_test ==
    LET unchanged == [pending_nonces |-> pending_nonces,
                      pending_events |-> pending_events,
                      next_tick |-> next_tick]
    IN  IF \A c \in DOMAIN peer_info : ~peer_info[c].supports_autonat
        THEN {unchanged}
        ELSE IF DOMAIN address_candidates = {}
        THEN {unchanged}
        ELSE IF \A a \in DOMAIN address_candidates : address_candidates[a].is_tested
        THEN {unchanged}
        ELSE IF eligible_addrs = {}
        THEN {unchanged}
        ELSE {[pending_nonces |-> o.pending_nonces,
               pending_events |-> o.pending_events,
               next_tick |-> "armed"] :
                o \in UNION {submit_req_for_peer(peer_info[c].peer_id, select_addrs(entries)) :
                                c \in server_conns, entries \in sorted_entries}}

\* ------------------------------------------------------------------ poll
\* VecDeque::pop_back, of a queue that is not empty.
pop_back(q) == [event |-> q[Len(q)], rest |-> SubSeq(q, 1, Len(q) - 1)]

\* VecDeque::pop_front, of a queue that is not empty.
pop_front(q) == [event |-> Head(q), rest |-> Tail(q)]

\* poll that leaves what the tick enqueued in the queue and returns Pending.
poll_pending_after_tick ==
    /\ ~panicked
    /\ IF pending_events # <<>>
       THEN /\ pending_events' = pop_front(pending_events).rest
            /\ UNCHANGED <<pending_nonces, next_tick>>
            /\ Observe([op |-> "poll", ticked |-> FALSE,
                        result |-> Ready(pop_front(pending_events).event)], FALSE)
       ELSE IF next_tick = "elapsed"
       THEN \E o \in inject_address_candiate_test :
               /\ pending_nonces' = o.pending_nonces
               /\ next_tick' = o.next_tick
               /\ pending_events' = o.pending_events
               /\ Observe([op |-> "poll", ticked |-> TRUE, result |-> Pending], FALSE)
       ELSE /\ UNCHANGED <<pending_nonces, pending_events, next_tick>>
            /\ Observe([op |-> "poll", ticked |-> FALSE, result |-> Pending], FALSE)
    /\ UNCHANGED <<address_candidates, already_tested, peer_info, connections, panicked>>

\* Behaviour::poll
poll ==
    /\ ~panicked
    /\ IF pending_events # <<>>
       THEN /\ pending_events' = pop_front(pending_events).rest
            /\ UNCHANGED <<pending_nonces, next_tick>>
            /\ Observe([op |-> "poll", ticked |-> FALSE,
                        result |-> Ready(pop_front(pending_events).event)], FALSE)
       ELSE IF next_tick = "elapsed"
       THEN \E o \in inject_address_candiate_test :
               LET r == IF o.pending_events # <<>>
                        THEN Ready(pop_front(o.pending_events).event) ELSE Pending
               IN  /\ pending_nonces' = o.pending_nonces
                   /\ next_tick' = o.next_tick
                   /\ pending_events' = IF o.pending_events # <<>>
                                        THEN pop_front(o.pending_events).rest
                                        ELSE o.pending_events
                   /\ Observe([op |-> "poll", ticked |-> TRUE, result |-> r], FALSE)
       ELSE /\ UNCHANGED <<pending_nonces, pending_events, next_tick>>
            /\ Observe([op |-> "poll", ticked |-> FALSE, result |-> Pending], FALSE)
    /\ UNCHANGED <<address_candidates, already_tested, peer_info, connections, panicked>>

\* ---------------------------------------------------------- specification
\* Behaviour::new, before the swarm has reported anything, in a world w and
\* under observer m.
NewBehaviour(w, m) ==
    /\ world = w
    /\ mode = m
    /\ pending_nonces = <<>>
    /\ pending_events = <<>>
    /\ address_candidates = <<>>
    /\ already_tested = {}
    /\ next_tick = "armed"
    /\ peer_info = <<>>
    /\ connections = [c \in 1..w.conns |-> NoPeer]
    /\ panicked = FALSE
    /\ last = NoEvent
    /\ marked = {}
    /\ sent = [n \in 1..w.nonces |-> {}]

\* The same with no ListenerPresence collected.
InitBehaviour(w, m) ==
    /\ NewBehaviour(w, m)
    /\ listener_presence = ListenerPresenceDefault
    /\ listener_input = [addrs |-> {}, query |-> <<>>, step |-> "none"]
    /\ contains_result = "none"

World(a, p, c, n) == [addrs |-> a, peers |-> p, conns |-> c, nonces |-> n]

Init == InitBehaviour(World(Several, Several, Several, Few), "dispatch")

Next ==
    \/ \E a \in Addrs : NewExternalAddrCandidate(a)
    \/ \E a \in Addrs : ExternalAddrConfirmed(a)
    \/ \E p \in Peers, c \in ConnIds : ConnectionEstablished(p, c)
    \/ \E p \in Peers, c \in ConnIds : ConnectionClosed(p, c)
    \/ \E p \in Peers \cup {NoPeer}, c \in ConnIds : DialFailure(p, c)
    \/ \E c \in ConnIds, n \in Nonces : DialBack(c, n)
    \/ \E c \in ConnIds : PeerHasServerSupport(c)
    \/ \E c \in ConnIds, srv \in Peers \cup {NoPeer}, r \in TestResults, b \in BOOLEAN :
           TestCompleted(c, srv, r, b)
    \/ \E a \in Addrs : validate_addr(a)
    \/ TimerElapsed
    \/ poll

\* The behaviour under every interleaving of its operations, with the
\* "dispatch" observer.
Spec == Init /\ [][Next]_vars

\* A ListenerPresence collected from any set of at most MaxListeners
\* addresses and asked for any address; the Behaviour stays as new() left it.
InitListener ==
    /\ NewBehaviour(World(Few, Few, Few, Few), "listener")
    /\ listener_presence = ListenerPresenceDefault
    /\ listener_input \in
           {[addrs |-> S, query |-> q, step |-> "new"] :
               S \in {{}} \cup {Range(f) : f \in [1..MaxListeners -> Multiaddrs]},
               q \in Multiaddrs}
    /\ contains_result = "none"

behaviour_vars == <<pending_nonces, pending_events, address_candidates, already_tested,
                    next_tick, peer_info, connections, panicked,
                    world, mode, last, marked, sent>>

\* let listener_presence: ListenerPresence = addrs.iter().collect();
ListenerFromIter ==
    /\ listener_input.step = "new"
    /\ listener_presence' = from_iter(listener_input.addrs)
    /\ listener_input' = [listener_input EXCEPT !.step = "built"]
    /\ UNCHANGED contains_result
    /\ UNCHANGED behaviour_vars

\* listener_presence.contains(&query)
ListenerContains ==
    /\ listener_input.step = "built"
    /\ contains_result' = contains(listener_presence, listener_input.query)
    /\ listener_input' = [listener_input EXCEPT !.step = "asked"]
    /\ UNCHANGED listener_presence
    /\ UNCHANGED behaviour_vars

NextListener ==
    \/ ListenerFromIter
    \/ ListenerContains

SpecListener == InitListener /\ [][NextListener]_vars

\* The same behaviour under the other observers.
SpecTeardown ==
    InitBehaviour(World(Few, Several, Several, Few), "teardown") /\ [][Next]_vars
SpecCompleted ==
    InitBehaviour(World(Several, Few, Few, Several), "completed") /\ [][Next]_vars
SpecEvent ==
    InitBehaviour(World(Few, Several, Several, Few), "event") /\ [][Next]_vars
SpecSent ==
    InitBehaviour(World(Several, Few, Few, Several), "sent") /\ [][Next]_vars
SpecValidate ==
    InitBehaviour(World(Several, Few, Few, Few), "validate") /\ [][Next]_vars
SpecBlacklist ==
    InitBehaviour(World(Several, Few, Few, Few), "blacklist") /\ [][Next]_vars
SpecEvict ==
    InitBehaviour(World(Few, Several, Several, Few), "evict") /\ [][Next]_vars
SpecBook ==
    InitBehaviour(World(Several, Few, Few, Few), "book") /\ [][Next]_vars
SpecLedger ==
    InitBehaviour(World(Few, Few, Few, Several), "ledger") /\ [][Next]_vars
SpecOrder ==
    InitBehaviour(World(Few, Few, Few, Several), "order") /\ [][Next]_vars
SpecInflight ==
    InitBehaviour(World(Few, Few, Several, Few), "inflight") /\ [][Next]_vars

\* The behaviour under the "dispatch" observer, polled fairly: the swarm
\* calls poll again and again, so a poll that would change the state is not
\* put off for ever.
SpecProgress ==
    /\ InitBehaviour(World(Several, Few, Few, Few), "dispatch")
    /\ [][Next]_vars
    /\ WF_vars(poll)

\* ------------------------------------------------------------ properties
\* The directives a step appended to the queue (TestCompleted only appends).
Appended(before, after) == SubSeq(after, Len(before) + 1, Len(after))

IsPrefix(before, after) ==
    Len(before) <= Len(after) /\ SubSeq(after, 1, Len(before)) = before

\* C1: an ExternalAddrConfirmed directive is enqueued only by a TestCompleted
\* whose result is Ok and whose nonce has status Received in pending_nonces
\* at that moment; a TestCompleted(Ok) whose nonce is absent or Pending
\* enqueues nothing but a GenerateEvent.  Under SpecCompleted.
C1_ConfirmOnlyOnReceivedNonce ==
    [][/\ CountType(pending_events', "ExternalAddrConfirmed")
             > CountType(pending_events, "ExternalAddrConfirmed")
          => /\ last'.op = "TestCompleted"
             /\ last'.result.ok
             /\ last'.result.nonce \in DOMAIN pending_nonces
             /\ pending_nonces[last'.result.nonce] = "Received"
             /\ IsPrefix(pending_events, pending_events')
             /\ Appended(pending_events, pending_events')[1]
                    = [type |-> "ExternalAddrConfirmed", addr |-> last'.result.reachable_addr]
       /\ (/\ last'.op = "TestCompleted"
           /\ last'.result.ok
           /\ \/ last'.result.nonce \notin DOMAIN pending_nonces
              \/ pending_nonces[last'.result.nonce] = "Pending")
          => /\ IsPrefix(pending_events, pending_events')
             /\ Len(pending_events') <= Len(pending_events) + 1
             /\ \A d \in Range(Appended(pending_events, pending_events')) :
                    d.type = "GenerateEvent"
      ]_vars

\* C1 happens: a TestCompleted(Ok) has just enqueued the confirmation of its
\* reachable_addr and then its GenerateEvent.
C1_Witness ==
    /\ last.op = "TestCompleted"
    /\ last.result.ok
    /\ Len(pending_events) >= 2
    /\ pending_events[Len(pending_events) - 1]
           = [type |-> "ExternalAddrConfirmed", addr |-> last.result.reachable_addr]
    /\ pending_events[Len(pending_events)].type = "GenerateEvent"

\* C2: every ExternalAddrConfirmed(addr) the behaviour enqueues has a nonce n
\* that was dispatched in a DialRequest whose addrs contain addr and that a
\* dial-back carried before the TestCompleted that enqueued it.  Under
\* SpecSent; the behaviour does not keep it.
C2_ConfirmedAddrWasDispatched ==
    (/\ last.op = "TestCompleted"
     /\ Len(pending_events) >= 2
     /\ pending_events[Len(pending_events) - 1].type = "ExternalAddrConfirmed")
    => \E n \in Nonces :
          /\ pending_events[Len(pending_events) - 1].addr \in sent[n]
          /\ n \in marked

\* C3 as stated: once validate_addr(a) was called, whether a was a candidate
\* or not, no DialRequest dispatched later contains a.  Under SpecValidate.
C3_ValidatedNeverProbed ==
    is_dispatch(last) =>
        \A a \in Range(last.result.event.addrs) :
            <<a, TRUE>> \notin marked /\ <<a, FALSE>> \notin marked

\* C3 amended: once validate_addr(a) was called for an a that was a key of
\* address_candidates at that call, no DialRequest dispatched later contains a.
C3_ValidatedCandidateNeverProbed ==
    is_dispatch(last) =>
        \A a \in Range(last.result.event.addrs) : <<a, TRUE>> \notin marked

\* C3 happens: a DialRequest is dispatched after validate_addr was called for
\* a candidate.
C3_Witness ==
    /\ is_dispatch(last)
    /\ \E a \in Addrs : <<a, TRUE>> \in marked

\* C4: every address of a dispatched DialRequest is a key of
\* address_candidates with is_tested false at selection, and none is a member
\* of already_tested (poll changes neither).  Under Spec.
C4_NoRetryOfTested ==
    is_dispatch(last) =>
        \A a \in Range(last.result.event.addrs) :
            /\ a \in DOMAIN address_candidates
            /\ ~address_candidates[a].is_tested
            /\ a \notin already_tested

\* C4 happens: a DialRequest is dispatched while some candidate is tested.
C4_Witness ==
    /\ is_dispatch(last)
    /\ last.result.event.addrs # <<>>
    /\ \E a \in DOMAIN address_candidates : address_candidates[a].is_tested

\* The addresses a tick may select from, as C5 counts them.
EligibleSet ==
    {a \in DOMAIN address_candidates :
        ~address_candidates[a].is_tested /\ a \notin already_tested}

C6_ServerEligibility ==
    [][/\ is_dispatch(last')
          => LET request == last'.result.event
             IN  /\ request.handler \in DOMAIN peer_info
                 /\ peer_info[request.handler].peer_id = request.peer_id
                 /\ peer_info[request.handler].supports_autonat
       /\ (/\ last'.op = "poll"
           /\ last'.ticked
           /\ \A c \in DOMAIN peer_info : ~peer_info[c].supports_autonat)
          => /\ last'.result = [type |-> "Pending"]
             /\ pending_events' = pending_events
             /\ pending_nonces' = pending_nonces
      ]_vars

\* C6 happens: a DialRequest is dispatched while the same peer has another
\* connection whose record does not support the protocol.
C6_Witness ==
    /\ is_dispatch(last)
    /\ \E c \in DOMAIN peer_info :
          /\ c # last.result.event.handler
          /\ peer_info[c].peer_id = last.result.event.peer_id
          /\ ~peer_info[c].supports_autonat

\* C7: right after ConnectionClosed(peer, conn) or DialFailure(Some(peer),
\* conn), peer_info has no entry keyed by conn.  Under SpecTeardown.
C7_Teardown ==
    last.op \in {"ConnectionClosed", "DialFailure"}
        => last.connection_id \notin DOMAIN peer_info

\* C7 happens: a connection that had a record was closed, and a record of
\* another connection stays.
C7_Witness ==
    /\ last.op = "ConnectionClosed"
    /\ last.connection_id \notin DOMAIN peer_info
    /\ peer_info # <<>>

\* C8 as stated: after TestCompleted(Err(e)) from peer P on connection C with
\* e one of the seven server errors, no peer_info record of P has
\* supports_autonat set, and no tick dispatches to P before a
\* PeerHasServerSupport of a connection of P; after any other error kind
\* peer_info is as before.  Under SpecEvict.
C8_ServerEvictionElseUnchanged ==
    [][/\ (last'.op = "TestCompleted" /\ ~last'.result.ok)
          => IF last'.result.kind \in
                    {"InternalServer", "DataRequestTooLarge", "DataRequestTooSmall",
                     "InvalidResponse", "ServerRejectedDialRequest",
                     "InvalidReferencedAddress", "ServerChoseNotToDialAnyAddress"}
             THEN \A c \in DOMAIN peer_info' :
                     peer_info'[c].peer_id = last'.peer_id => ~peer_info'[c].supports_autonat
             ELSE peer_info' = peer_info
       /\ is_dispatch(last') => last'.result.event.peer_id \notin marked
      ]_vars

\* C8 amended: the same for a TestCompleted that finds the record it needs,
\* except that after any other error kind peer_info is as before but for
\* supports_autonat of C's record, which server_no_support = true clears;
\* a TestCompleted with server_no_support = true for a C without record
\* panics and leaves peer_info as it is.
C8_ServerEviction ==
    [][/\ (last'.op = "TestCompleted" /\ ~last'.result.ok /\ ~panicked')
          => IF last'.result.kind \in
                    {"InternalServer", "DataRequestTooLarge", "DataRequestTooSmall",
                     "InvalidResponse", "ServerRejectedDialRequest",
                     "InvalidReferencedAddress", "ServerChoseNotToDialAnyAddress"}
             THEN \A c \in DOMAIN peer_info' :
                     peer_info'[c].peer_id = last'.peer_id => ~peer_info'[c].supports_autonat
             ELSE peer_info' =
                     IF last'.server_no_support
                     THEN [peer_info EXCEPT ![last'.connection_id].supports_autonat = FALSE]
                     ELSE peer_info
       /\ (last'.op = "TestCompleted" /\ panicked')
          => /\ last'.server_no_support
             /\ last'.connection_id \notin DOMAIN peer_info
             /\ peer_info' = peer_info
       /\ is_dispatch(last') => last'.result.event.peer_id \notin marked
      ]_vars

\* C8 happens: a server error has just evicted a peer that supported the
\* protocol on another connection, whose record stays without the flag.
C8_Witness ==
    /\ last.op = "TestCompleted"
    /\ ~last.result.ok
    /\ last.result.kind = "InvalidResponse"
    /\ ~panicked
    /\ last.peer_id \in marked
    /\ last.connection_id \notin DOMAIN peer_info
    /\ \E c \in DOMAIN peer_info : peer_info[c].peer_id = last.peer_id

\* C9 as stated: after TestCompleted(Err(FailureDuringDialBack{addr: Some(a)}))
\* or TestCompleted(Err(UnableToConnectOnSelectedAddress{addr: Some(a)})), a is
\* tested in address_candidates and no DialRequest dispatched later contains
\* a.  Under SpecBlacklist.
C9_FailedAddrNeverProbed ==
    /\ \A m \in marked :
          m[1] \in DOMAIN address_candidates /\ address_candidates[m[1]].is_tested
    /\ is_dispatch(last)
          => \A a \in Range(last.result.event.addrs) :
                <<a, TRUE>> \notin marked /\ <<a, FALSE>> \notin marked

\* C9 amended: the same for an a that is a key of address_candidates when the
\* TestCompleted is processed, and a TestCompleted that finds the record it
\* needs; one with server_no_support = true for a connection without record
\* panics and leaves address_candidates as it is.
C9_FailedCandidateNeverProbed ==
    [][/\ \A m \in marked' :
             m[2] => /\ m[1] \in DOMAIN address_candidates'
                     /\ address_candidates'[m[1]].is_tested
       /\ is_dispatch(last')
             => \A a \in Range(last'.result.event.addrs) : <<a, TRUE>> \notin marked'
       /\ (panicked' /\ ~panicked) => address_candidates' = address_candidates
      ]_vars

\* C9 happens: a DialRequest is dispatched after a TestCompleted reported the
\* failure of a candidate.
C9_Witness ==
    /\ is_dispatch(last)
    /\ \E a \in Addrs : <<a, TRUE>> \in marked

\* C10: every TestCompleted enqueues exactly one GenerateEvent, whose result
\* is Ok exactly when the handler's was and whose server is the one the
\* handler names or else the peer of the connection.  Under SpecEvent; the
\* behaviour does not keep it.
C10_OneEventPerTestCompleted ==
    [][last'.op = "TestCompleted"
          => /\ IsPrefix(pending_events, pending_events')
             /\ CountType(pending_events', "GenerateEvent")
                    = CountType(pending_events, "GenerateEvent") + 1
             /\ pending_events' # <<>>
             /\ pending_events'[Len(pending_events')]
                    = [type |-> "GenerateEvent",
                       server |-> IF last'.server # NoPeer
                                  THEN last'.server ELSE last'.peer_id,
                       result |-> IF last'.ok THEN "Ok" ELSE "Err"]
      ]_vars

\* C11: poll returns the directives in the order they were enqueued, none
\* dropped, doubled or moved: every poll that returns a directive returns the
\* oldest one and leaves the others in their order, a poll that returns
\* Pending leaves an empty queue, and every other operation only appends.
\* Under SpecOrder.
C11_StrictFifo ==
    [][IF last'.op = "poll"
       THEN IF last'.result.type = "Ready"
            THEN IF pending_events # <<>>
                 THEN /\ last'.result.event = pending_events[1]
                      /\ pending_events' = SubSeq(pending_events, 2, Len(pending_events))
                 ELSE /\ last'.ticked
                      /\ pending_events' = <<>>
            ELSE pending_events = <<>> /\ pending_events' = <<>>
       ELSE IsPrefix(pending_events, pending_events')
      ]_vars

\* C11 happens: poll has returned the older of two queued directives and the
\* younger one waits.
C11_Witness ==
    /\ last.op = "poll"
    /\ last.result.type = "Ready"
    /\ last.result.event.type = "ExternalAddrConfirmed"
    /\ Len(pending_events) = 1
    /\ pending_events[1].type = "GenerateEvent"

\* C12: a TestCompleted(Ok) whose nonce is Received enqueues
\* ExternalAddrConfirmed(reachable_addr) right before its GenerateEvent, and
\* only after poll has returned the NotifyHandler that carried the nonce;
\* poll returns an ExternalAddrConfirmed while its GenerateEvent is the next
\* in the queue.  Under SpecOrder.
C12_ConfirmBeforeEventAfterRequest ==
    [][/\ (/\ last'.op = "TestCompleted"
           /\ last'.result.ok
           /\ ~panicked'
           /\ last'.result.nonce \in DOMAIN pending_nonces
           /\ pending_nonces[last'.result.nonce] = "Received")
          => /\ last'.result.nonce \in marked
             /\ IsPrefix(pending_events, pending_events')
             /\ Len(pending_events') = Len(pending_events) + 2
             /\ pending_events'[Len(pending_events') - 1]
                    = [type |-> "ExternalAddrConfirmed", addr |-> last'.result.reachable_addr]
             /\ pending_events'[Len(pending_events')].type = "GenerateEvent"
             /\ pending_events'[Len(pending_events')].result = "Ok"
       /\ (/\ last'.op = "poll"
           /\ last'.result.type = "Ready"
           /\ last'.result.event.type = "ExternalAddrConfirmed")
          => /\ pending_events' # <<>>
             /\ pending_events'[1].type = "GenerateEvent"
             /\ pending_events'[1].result = "Ok"
      ]_vars

\* C12 happens: poll has just returned the confirmation of a probe whose
\* NotifyHandler it returned earlier, and the GenerateEvent waits.
C12_Witness ==
    /\ last.op = "poll"
    /\ last.result.type = "Ready"
    /\ last.result.event.type = "ExternalAddrConfirmed"
    /\ marked # {}
    /\ pending_events # <<>>
    /\ pending_events[1].type = "GenerateEvent"

\* C13: NewExternalAddrCandidate(addr) raises the score of addr by exactly 1,
\* creating the entry untested if it is absent, and leaves its is_tested and
\* every other entry as they are; no operation removes an entry, lowers a
\* score or takes is_tested from true back to false.  Under SpecBook.
C13_AddressBookLifecycle ==
    [][/\ last'.op = "NewExternalAddrCandidate"
          => LET a == last'.addr
                 before == IF a \in DOMAIN address_candidates
                           THEN address_candidates[a]
                           ELSE [score |-> 0, is_tested |-> FALSE]
             IN  /\ DOMAIN address_candidates' = DOMAIN address_candidates \cup {a}
                 /\ address_candidates'[a].score = before.score + 1
                 /\ address_candidates'[a].is_tested = before.is_tested
                 /\ \A b \in DOMAIN address_candidates \ {a} :
                       address_candidates'[b] = address_candidates[b]
       /\ DOMAIN address_candidates \subseteq DOMAIN address_candidates'
       /\ \A b \in DOMAIN address_candidates :
             /\ address_candidates'[b].score >= address_candidates[b].score
             /\ address_candidates[b].is_tested => address_candidates'[b].is_tested
      ]_vars

\* C13 happens: a tested candidate has just been announced once more, beside
\* another entry.
C13_Witness ==
    /\ last.op = "NewExternalAddrCandidate"
    /\ address_candidates[last.addr].score >= 2
    /\ address_candidates[last.addr].is_tested
    /\ DOMAIN address_candidates # {last.addr}

\* C16 as stated: when the behaviour enqueues ExternalAddrConfirmed(addr) for
\* an addr that is a key of address_candidates, is_tested of addr is true in
\* the state it leaves.  Under SpecBook.
C16_EnqueuedConfirmationIsTested ==
    [][CountType(pending_events', "ExternalAddrConfirmed")
           > CountType(pending_events, "ExternalAddrConfirmed")
          => \A d \in Range(Appended(pending_events, pending_events')) :
                (d.type = "ExternalAddrConfirmed" /\ d.addr \in DOMAIN address_candidates)
                   => address_candidates'[d.addr].is_tested
      ]_vars

\* C16 amended: once the swarm has reported FromSwarm::ExternalAddrConfirmed
\* (addr) for an addr that is a key of address_candidates, is_tested of addr
\* is true in that state and in every later one.
C16_SwarmConfirmedIsTested ==
    \A a \in marked :
        a \in DOMAIN address_candidates /\ address_candidates[a].is_tested

\* C16 happens: the swarm confirmed a candidate earlier, and other operations
\* have run since.
C16_Witness ==
    /\ marked # {}
    /\ last.op = "NewExternalAddrCandidate"
    /\ last.addr \in marked

\* The signature of an address as C14 words it: its tags in order, without
\* dns, dns4, dns6, dnsaddr, ip4, ip6 and p2p wherever they occur.
IsIgnoredTag(t) == t \in {"dns", "dns4", "dns6", "dnsaddr", "ip4", "ip6", "p2p"}
Signature(a) == SelectSeq(a, LAMBDA t : ~IsIgnoredTag(t))

\* C14: for a ListenerPresence collected from a set S of addresses,
\* contains(q) is true exactly when the signature of q equals the signature
\* of some a in S; so it is true for every a in S, and false for a q whose
\* remaining tags differ from those of every a in order or content.  Under
\* SpecListener.
C14_ListenerPresence ==
    listener_input.step = "asked"
        => /\ contains_result \in BOOLEAN
           /\ contains_result
                 <=> \E a \in listener_input.addrs :
                        Signature(listener_input.query) = Signature(a)
           /\ listener_input.query \in listener_input.addrs => contains_result

\* C14 happens: contains is true for an address that was not collected and
\* that differs from a collected one in the ignored tags.
C14_Witness ==
    /\ listener_input.step = "asked"
    /\ contains_result = TRUE
    /\ listener_input.query \notin listener_input.addrs
    /\ \E i \in 1..Len(listener_input.query) : IsIgnoredTag(listener_input.query[i])
    /\ Signature(listener_input.query) # <<>>

\* C15: whenever the dial-request handler of a live connection reports
\* PeerHasServerSupport, or TestCompleted with server_no_support = true,
\* peer_info has a record of the connection, so that no
\* expect("inconsistent state") fails.  Under Spec; the behaviour does not
\* keep it.
C15_NoInconsistentState == ~panicked

\* C17: every poll that finds the timer elapsed and runs the tick leaves the
\* timer reset, whether the tick dispatched or returned early.  Under Spec;
\* the behaviour does not keep it.
C17_TickResetsTimer ==
    (last.op = "poll" /\ last.ticked) => next_tick = "armed"

\* C18: for every nonce, at most one ExternalAddrConfirmed is ever enqueued
\* on the strength of it, whatever dial-backs and TestCompleted reports
\* arrive.  Under SpecLedger; the behaviour does not keep it.
C18_NonceSingleUse ==
    [][CountType(pending_events', "ExternalAddrConfirmed")
           > CountType(pending_events, "ExternalAddrConfirmed")
          => <<"confirmed", last'.result.nonce>> \notin marked
      ]_vars

\* C19 as stated: an entry of pending_nonces is created as Pending by a
\* dispatch, changes only from Pending to Received, on a dial-back with
\* that nonce, is never removed, and once Received never is Pending
\* again.  Under SpecLedger.
C19_NonceStatusMonotone ==
    [][/\ DOMAIN pending_nonces \subseteq DOMAIN pending_nonces'
       /\ \A n \in DOMAIN pending_nonces' \ DOMAIN pending_nonces :
             /\ pending_nonces'[n] = "Pending"
             /\ is_dispatch(last') /\ last'.result.event.nonce = n
       /\ \A n \in DOMAIN pending_nonces :
             /\ (pending_nonces[n] = "Pending" /\ pending_nonces'[n] = "Received")
                   => (last'.op = "DialBack" /\ last'.nonce = n)
             /\ pending_nonces[n] = "Received" => pending_nonces'[n] = "Received"
      ]_vars

\* C19 amended: the same, except that an entry that is Received is Pending
\* again when a later dispatch draws the same nonce from the rng, and only
\* then.
C19_NonceStatusMonotoneButRedrawn ==
    [][/\ DOMAIN pending_nonces \subseteq DOMAIN pending_nonces'
       /\ \A n \in DOMAIN pending_nonces' \ DOMAIN pending_nonces :
             /\ pending_nonces'[n] = "Pending"
             /\ is_dispatch(last') /\ last'.result.event.nonce = n
       /\ \A n \in DOMAIN pending_nonces :
             /\ (pending_nonces[n] = "Pending" /\ pending_nonces'[n] = "Received")
                   => (last'.op = "DialBack" /\ last'.nonce = n)
             /\ (pending_nonces[n] = "Received" /\ pending_nonces'[n] = "Pending")
                   => (is_dispatch(last') /\ last'.result.event.nonce = n)
      ]_vars

\* C19 happens: a dial-back has just turned one nonce Received while another
\* stays Pending.
C19_Witness ==
    /\ last.op = "DialBack"
    /\ last.nonce \in DOMAIN pending_nonces
    /\ pending_nonces[last.nonce] = "Received"
    /\ \E n \in DOMAIN pending_nonces : pending_nonces[n] = "Pending"

\* C20: the keys of pending_nonces are exactly the nonces of the
\* NotifyHandlers that were enqueued; a dial-back with a nonce that is no key
\* creates no entry, enqueues nothing and leaves address_candidates,
\* peer_info and pending_nonces as they are.  Under SpecLedger.
C20_LedgerKeysAreDispatched ==
    [][/\ DOMAIN pending_nonces' = {n \in Nonces : <<"dispatched", n>> \in marked'}
       /\ (last'.op = "DialBack" /\ last'.nonce \notin DOMAIN pending_nonces)
          => /\ pending_nonces' = pending_nonces
             /\ pending_events' = pending_events
             /\ address_candidates' = address_candidates
             /\ peer_info' = peer_info
      ]_vars

\* C20 happens: a dial-back has just come with a nonce that is no key, while
\* another nonce is one.
C20_Witness ==
    /\ last.op = "DialBack"
    /\ last.nonce \notin DOMAIN pending_nonces
    /\ pending_nonces # <<>>

\* C21: supports_autonat of a peer_info record turns from false to true only
\* while PeerHasServerSupport of that very connection is processed; a record
\* is created with the flag false, and no other event, support signalled on
\* another connection of the same peer included, sets the flag.  Under
\* SpecTeardown.
C21_SupportOnlyBySignal ==
    [][/\ \A c \in DOMAIN peer_info' \ DOMAIN peer_info :
             ~peer_info'[c].supports_autonat
       /\ \A c \in DOMAIN peer_info' \cap DOMAIN peer_info :
             (~peer_info[c].supports_autonat /\ peer_info'[c].supports_autonat)
                => (last'.op = "PeerHasServerSupport" /\ last'.connection_id = c)
      ]_vars

\* C21 happens: a connection has just signalled support while another
\* connection of the same peer has a record without the flag.
C21_Witness ==
    /\ last.op = "PeerHasServerSupport"
    /\ ~panicked
    /\ peer_info[last.connection_id].supports_autonat
    /\ \E c \in DOMAIN peer_info :
          /\ c # last.connection_id
          /\ peer_info[c].peer_id = peer_info[last.connection_id].peer_id
          /\ ~peer_info[c].supports_autonat

\* C22: handle_no_connection(peer, conn), as ConnectionClosed and
\* DialFailure(Some(peer)) invoke it, leaves every remaining record of peer
\* with supports_autonat false, whether conn had a record or had signalled
\* support or not, adds no record, and leaves the records of every other
\* peer as they are, in membership and in flags.  Under SpecTeardown.
C22_TeardownClearsPeerOnly ==
    [][last'.op \in {"ConnectionClosed", "DialFailure"}
          => /\ DOMAIN peer_info' \subseteq DOMAIN peer_info
             /\ \A c \in DOMAIN peer_info' :
                   peer_info'[c].peer_id = last'.peer_id
                      => ~peer_info'[c].supports_autonat
             /\ \A c \in DOMAIN peer_info :
                   peer_info[c].peer_id # last'.peer_id
                      => (c \in DOMAIN peer_info' /\ peer_info'[c] = peer_info[c])
      ]_vars

\* C22 happens: a connection was closed while its peer keeps the record of
\* another connection.
C22_Witness ==
    /\ last.op = "ConnectionClosed"
    /\ \E c \in DOMAIN peer_info : peer_info[c].peer_id = last.peer_id

\* C23: when the connection a probe was sent on is closed while the probe is
\* in flight (its NotifyHandler enqueued, its TestCompleted not processed
\* yet), the teardown leaves pending_nonces, the probe's nonce with them,
\* address_candidates and pending_events as they are, and no
\* ExternalAddrConfirmed is enqueued on that probe's nonce afterwards.  Under
\* SpecInflight; the behaviour does not keep it.
C23_ClosedProbeNeverConfirmed ==
    [][/\ (/\ last'.op = "ConnectionClosed"
           /\ \E m \in marked : m[1] = "inflight" /\ m[3] = last'.connection_id)
          => /\ pending_nonces' = pending_nonces
             /\ address_candidates' = address_candidates
             /\ pending_events' = pending_events
       /\ (/\ last'.op = "TestCompleted"
           /\ CountType(pending_events', "ExternalAddrConfirmed")
                  > CountType(pending_events, "ExternalAddrConfirmed"))
          => \A m \in marked : ~(m[1] = "closed" /\ m[2] = last'.result.nonce)
      ]_vars

\* The state C24 starts from: the queue is empty, the timer has elapsed, a
\* record supports the protocol, a candidate is untested, max_candidates >= 1.
ProbeReady ==
    /\ ~panicked
    /\ pending_events = <<>>
    /\ next_tick = "elapsed"
    /\ \E c \in DOMAIN peer_info : peer_info[c].supports_autonat
    /\ \E a \in DOMAIN address_candidates : ~address_candidates[a].is_tested
    /\ config_max_candidates >= 1

\* C24: a poll called in a ProbeReady state runs the tick and returns, in
\* that same call, Ready with a NotifyHandler whose DialRequest has a
\* non-empty address list, never Pending; so, polled fairly, a state that is
\* ProbeReady and stays so until it is polled leads to a dispatched probe.
\* Under SpecProgress.
C24_ProbeProgress ==
    /\ [][(ProbeReady /\ last'.op = "poll")
             => /\ last'.ticked
                /\ is_dispatch(last')
                /\ last'.result.event.addrs # <<>>
                /\ last'.result.event.nonce \in DOMAIN pending_nonces'
          ]_vars
    /\ ProbeReady ~> (is_dispatch(last) \/ ~ProbeReady)

\* C24 happens: the tick of a poll has just dispatched the untested one of
\* two candidates and reset the timer.
C24_Witness ==
    /\ is_dispatch(last)
    /\ last.ticked
    /\ Len(last.result.event.addrs) = 1
    /\ pending_events = <<>>
    /\ next_tick = "armed"
    /\ \E a \in DOMAIN address_candidates : address_candidates[a].is_tested

====
